---- MODULE Spec2Model ----
(***************************************************************************)
(* Model of codemcp/hot_reload_entry.py: the HotReloadManager bridge.      *)
(*                                                                         *)
(* The manager owns one background task (the Supervisor worker) that owns  *)
(* the child session; callers of call_tool() ("invoke") and stop() are     *)
(* coroutines on one asyncio event loop.  An action of this model is the   *)
(* code one coroutine runs from one suspension point to the next, so the   *)
(* interleavings of the model are those of the event loop.                 *)
(*                                                                         *)
(* Suspension points of the code:                                          *)
(*   stop():       wait_for(stop_future, 5.0), wait_for(task, 5.0),        *)
(*                 wait_for(task, 1.0)                                     *)
(*   call_tool():  the three of stop(), wait_for(response_future, 30.0)    *)
(*   worker:       connecting/initializing, wait_for(request_queue.get()), *)
(*                 wait_for(session.call_tool(..)), leaving the contexts   *)
(* Queue.put() on an unbounded asyncio.Queue and start() never suspend.    *)
(*                                                                         *)
(* In Spec time is not measured: a timer may expire whenever the awaited   *)
(* thing has not happened yet.  In TimedSpec the same actions run with the *)
(* timers of the code measured in steps of five seconds.                   *)
(* asyncio.wait_for(future, ..) whose timer expires cancels the future and *)
(* raises TimeoutError at once.                                            *)
(* asyncio.wait_for(task, ..) whose timer expires requests cancellation of *)
(* the task and raises TimeoutError only when the task has finished: the   *)
(* waiter stays suspended while the task is unwinding.                     *)
(*                                                                         *)
(* The module also models write_class and write_function of                *)
(* codemcp/tools/code_entity.py (EntitySpec): the files they find, the     *)
(* answers of the permission check and of git, the text they write.        *)
(***************************************************************************)
EXTENDS Integers, Sequences, FiniteSets, TLC

\* Bounds of the model.
NumCallers == 2
MaxOps == 3
MaxTasks == 2
MaxMtime == 2

\* Number of invocations in the runs in which time is measured.
TimedOps == 2

Callers == 1..NumCallers
Ops == 1..MaxOps
Tasks == 1..MaxTasks
Mtimes == 1..MaxMtime

VARIABLES
    marker,     \* the .hot_reload file: 0 = absent, else its mtime
    last,       \* self._last_hot_reload_mtime: 0 = None
    task,       \* self._task: 0 = None, else the identity of the worker task
    rq,         \* self._request_queue: 0 = None, else the queue created with task rq
    wstate,     \* worker task t: "none" (never created), "connect", "loop",
                \*   "call", "closing", "done"
    wq,         \* worker task t: contents of the Queue it was created with
    wcur,       \* worker task t: the command whose child call is awaited
    wcancel,    \* worker task t: task.cancel() was requested
    open,       \* worker task t: its child session is open
    fut,        \* invocation o: its response_future
    sfut,       \* invocation o: its stop_future
    pc,         \* caller c: where its coroutine is suspended
    cop,        \* caller c: the invocation it is running (0 = none)
    ltask,      \* caller c: the local `task` of its stop()
    okind,      \* invocation o: "none", "invoke" or "stop"
    res,        \* invocation o: what call_tool()/stop() gave to its caller
    trig,       \* invocation o: the task that was alive when its reload check
                \*   returned true (0 = no such task)
    nextOp,     \* number of the next invocation
    enq,        \* history: the Calls put on queues, in order
    disp,       \* history: the child invocations made, in order
    fin,        \* history: arguments of the child invocations that have ended
    age,        \* the running timers: whether time is measured, and the time
                \*   each caller and each worker has been waiting; with them,
                \*   in a run with time measured, the number of expiries of
                \*   each worker's wait for a command, the latest
                \*   call_tool() that found the reload check true with no
                \*   task alive, the tasks whose session raised while it
                \*   was being closed, and whether the marker has changed
                \*   since the manager was constructed
    ent         \* the files, commits and last outcome of the code-entity tools

\* The variables of the bridge
bvars == <<marker, last, task, rq, wstate, wq, wcur, wcancel, open, fut, sfut,
           pc, cop, ltask, okind, res, trig, nextOp, enq, disp, fin>>

vars == <<marker, last, task, rq, wstate, wq, wcur, wcancel, open, fut, sfut,
          pc, cop, ltask, okind, res, trig, nextOp, enq, disp, fin, age, ent>>

----------------------------------------------------------------------------
\* Values

NoCmd == [cmd |-> "none", args |-> 0, future |-> 0]
StopCmd(o) == [cmd |-> "stop", args |-> 0, future |-> o]
CallCmd(a, o) == [cmd |-> "call", args |-> a, future |-> o]

\* States of an asyncio.Future / outcomes of an invocation.
NoFut == [k |-> "none", v |-> 0]
Pending == [k |-> "pending", v |-> 0]
Cancelled == [k |-> "cancelled", v |-> 0]
Out(k, v) == [k |-> k, v |-> v]

\* What session.call_tool() can do for one Call.
Responses == {"ok", "errtext", "errother", "timeout", "raise"}

\* The child used here answers a Call with a payload naming the arguments it
\* was given, and reports an error with a text naming them.
Payload(a) == a
ErrText(a) == a

\* The argument mapping of invocation o: every invocation has its own.
ArgsOf(o) == o

----------------------------------------------------------------------------
\* ReloadTrigger: _check_hot_reload_file()

\* Variant: a first sighting of the marker counts as a change.
CheckReload_mutFirst(m, l) ==
    IF m = 0
    THEN l # 0
    ELSE IF l = 0 THEN TRUE
         ELSE m > l

\* Variant: any different mtime counts as a change.
CheckReload_mutChanged(m, l) ==
    IF m = 0
    THEN l # 0
    ELSE IF l = 0 THEN FALSE
         ELSE m # l

CheckReload(m, l) ==
    IF m = 0
    THEN l # 0
    ELSE IF l = 0 THEN FALSE
         ELSE m > l

\* Variant: the check remembers the first mtime it sees and no later one.
CheckNewLast_mutFirstOnly(m, l) == IF l = 0 THEN m ELSE l

\* Variant: the check remembers whatever mtime it sees.
CheckNewLast_mutFollow(m, l) == m

\* Variant: a newer mtime is reported but not remembered.
CheckNewLast_mutNoAdvance(m, l) ==
    IF m = 0 THEN 0
    ELSE IF l = 0 THEN m ELSE l

CheckNewLast(m, l) ==
    IF m = 0
    THEN (IF l # 0 THEN 0 ELSE l)
    ELSE IF l = 0 THEN m
         ELSE IF m > l THEN m ELSE l

----------------------------------------------------------------------------
\* Manager helpers

\* Variant: a task counts as done while it is still leaving its contexts.
TaskDone_mutClosing(t) == wstate[t] \in {"closing", "done"}

TaskDone(t) == wstate[t] = "done"

TaskAlive == task # 0 /\ ~TaskDone(task)

\* Variant: start() does not look at whether the task has finished.
StartCond_mutNoDone == task = 0

\* Variant: start() always creates a queue and a task.
StartCond_mutAlways == TRUE

\* start(): "if self._task is None or self._task.done()"
StartCond == task = 0 \/ TaskDone(task)

\* call_tool(): "if self._task is None or self._task.done() or
\* self._request_queue is None"
\* Variant: call_tool() does not look at whether the task has finished.
NeedStart_mutNoDone == task = 0 \/ rq = 0

NeedStart == task = 0 \/ TaskDone(task) \/ rq = 0

\* Variant: stop() does not look at the queue reference.
StopCond_mutNoQueue == task # 0 /\ ~TaskDone(task)

\* Variant: stop() does not look at whether the task has finished.
StopCond_mutNoDone == task # 0 /\ rq # 0

\* stop(): "if self._task and not self._task.done() and self._request_queue"
StopCond == task # 0 /\ ~TaskDone(task) /\ rq # 0

\* Variant: the reload branch is taken for a finished task only.
ReloadCond_mutDone(r) == r /\ task # 0 /\ TaskDone(task)

\* call_tool(): the reload branch
ReloadCond(r) == r /\ task # 0 /\ ~TaskDone(task)

NextTask == Cardinality({t \in Tasks : wstate[t] # "none"}) + 1

StopPcs == {"s_fut", "s_join", "s_join2"}

\* Callers other than c that are inside the stop() of an invoke and may still
\* have to start a worker when it returns.
Reserved(c) ==
    Cardinality({d \in Callers \ {c} : pc[d] \in StopPcs /\ okind[cop[d]] = "invoke"})

\* Variant: get() returns the newest item.
QHead_mutLast(q) == q[Len(q)]

\* Queue discipline of asyncio.Queue
QPut(q, c) == Append(q, c)
QHead(q) == Head(q)
QRest(q) == Tail(q)

\* Variant: the worker resolves the most recently created future.
ResolveTarget_mutLatest(c) == nextOp - 1

\* The future the worker resolves for the command it holds
ResolveTarget(c) == c.future

\* Variant: the worker sets the future without looking at it.
FutureOpen_mutAlways(f) == TRUE

\* not future.done(): the worker sets a future only if it is unresolved
FutureOpen(f) == f.k = "pending"

\* Variant: the worker takes the expiry for an error and leaves its loop.
AfterIdle_mutClose == "closing"

\* except asyncio.TimeoutError: continue.  When the wait for the next
\* command expires the worker goes round its loop.
AfterIdle == "loop"

\* Variant: a task whose session raises while it is closed never finishes.
AfterCloseError_mutStuck == "closing"

\* except Exception around the contexts of the session: an exception raised
\* while the contexts are left is logged and the task returns.
AfterCloseError == "done"

\* Variant: the worker answers a Stop and goes on with its loop.
AfterStop_mutLoop == "loop"

\* After a Stop the worker breaks out of its loop and leaves the contexts
\* of the session.
AfterStop == "closing"

\* Variant: the worker drops a Call whose future is no longer pending.
Dispatches_mutSkipDone(c) == fut[c.future].k = "pending"

\* The worker invokes the child for every Call it dequeues, whatever the
\* state of the Call's future.
Dispatches(c) == TRUE

\* Variant: the wait on response_future has no timeout.
OuterTimerCanFire_mutNever(o) == FALSE

\* The outer wait_for(response_future, 30.0) can expire while the future is
\* unresolved
OuterTimerCanFire(o) == fut[o].k = "pending"

\* start(): "self._request_queue = Queue()".  old is the content of the
\* queue that is being replaced.
\* Variant: the new worker is given what was left in the old queue.
NewQueue_mutCarry(old) == old

NewQueue(old) == <<>>

\* stop(): the handlers of its outer try, "except asyncio.TimeoutError" and
\* "except Exception": neither catches CancelledError.
StopCatches(e) == e # "CancelledError"

\* Variant: the wait after task.cancel() swallows TimeoutError only.
Join2Swallows_mutTimeoutOnly(e) == e = "TimeoutError"

\* stop(): "except (asyncio.TimeoutError, asyncio.CancelledError)" around
\* the wait after task.cancel()
Join2Swallows(e) == e \in {"TimeoutError", "CancelledError"}

\* What awaiting the finished task t raises: a task that was cancelled
\* raises CancelledError in its waiter.
TaskRaises(t) == IF wcancel[t] THEN "CancelledError" ELSE "none"

\* Variant: the handlers of the drain loop catch CancelledError too.
LoopCatches_mutBase(e) == TRUE

\* _run_manager_task(): the "except Exception" handlers in and around the
\* drain loop
LoopCatches(e) == e # "CancelledError"

\* Variant: a Call that did not succeed ends the drain loop.
AfterCall_mutFatal(r) == IF r = "ok" THEN "loop" ELSE "closing"

\* Variant: an internal timeout ends the drain loop.
AfterCall_mutTimeoutFatal(r) == IF r = "timeout" THEN "closing" ELSE "loop"

\* Variant: an exception of session.call_tool() ends the drain loop.
AfterCall_mutRaiseFatal(r) == IF r = "raise" THEN "closing" ELSE "loop"

\* _run_manager_task(): where the worker goes after session.call_tool()
\* ended with r: every handler falls through to the next round of the loop.
AfterCall(r) == "loop"

\* Variant: a failed handshake is ignored and the drain loop is entered.
AfterConnect_mutIgnore(okc) == "loop"

\* _run_manager_task(): where the worker goes after connecting and
\* initializing: into the drain loop, or out of the contexts on an exception.
AfterConnect(okc) == IF okc THEN "loop" ELSE "closing"

\* Variant: an error result is treated as a success.
Decode_mutErrAsOk(r, a) ==
    CASE r \in {"ok", "errtext", "errother"} -> Out("ok", Payload(a))
      [] r = "timeout" -> Out("TimeoutInternal", 0)
      [] r = "raise" -> Out("TransportError", 0)

\* Variant: the wait on stop_future has no timeout.
StopTimerCanFire_mutNever(o) == FALSE

\* stop(): wait_for(stop_future, 5.0) can expire while the future is
\* unresolved
StopTimerCanFire(o) == sfut[o] = "pending"

\* Decoding of the result of session.call_tool() into the future's outcome
Decode(r, a) ==
    CASE r = "ok" -> Out("ok", Payload(a))
      [] r = "errtext" -> Out("ChildError", ErrText(a))
      [] r = "errother" -> Out("UnknownError", 0)
      [] r = "timeout" -> Out("TimeoutInternal", 0)
      [] r = "raise" -> Out("TransportError", 0)

----------------------------------------------------------------------------
\* Timers.  The timeouts of the code, in seconds.
StopTimeout == 5
JoinTimeout == 5
InnerTimeout == 25
OuterTimeout == 30
IdleTimeout == 60

\* Time advances in steps of the shortest timeout.
TickUnit == StopTimeout

\* Time is not measured: every timer may expire at any moment.
AgeOff ==
    [on |-> FALSE, c |-> [c \in Callers |-> 0], w |-> [t \in Tasks |-> 0],
     polls |-> [t \in Tasks |-> 0], cold |-> 0, cfail |-> {},
     touched |-> FALSE]

\* Time is measured and no timer is running.
AgeZero ==
    [on |-> TRUE, c |-> [c \in Callers |-> 0], w |-> [t \in Tasks |-> 0],
     polls |-> [t \in Tasks |-> 0], cold |-> 0, cfail |-> {},
     touched |-> FALSE]

Min(a, b) == IF a <= b THEN a ELSE b

\* Number of expiries of the wait for the next command that are counted.
MaxPolls == 2

\* Variant: a timer may expire before its time.
Due_mutAnyTime(a, len) == TRUE

\* A timer of length len that has run for a has expired / has not expired.
Due(a, len) == ~age.on \/ a >= len
Early(a, len) == ~age.on \/ a < len

\* The timeout of the wait caller c is suspended in (0: the wait has none
\* that matters here).
Deadline(c) ==
    CASE pc[c] = "await" -> OuterTimeout
      [] pc[c] = "s_fut" -> StopTimeout
      [] pc[c] = "s_join" -> JoinTimeout
      [] OTHER -> 0

\* The timeout of the wait worker t is suspended in: that of the child
\* invocation, or that of the wait for the next command (0: none).
WDeadline(t) ==
    CASE wstate[t] = "call" -> InnerTimeout
      [] wstate[t] = "loop" -> IdleTimeout
      [] OTHER -> 0

\* The step is the beginning of a call_tool() whose reload check answers
\* true while no task is alive.
ColdReload ==
    /\ nextOp' = nextOp + 1
    /\ okind'[nextOp] = "invoke"
    /\ CheckReload(marker, last)
    /\ ~TaskAlive

\* A step starts the timer of a wait when it begins the wait: that of a
\* caller, that of the child invocation when the worker dispatches a Call,
\* and that of the wait for the next command when the worker goes round
\* its loop.
AgeStep ==
    age' = IF ~age.on
           THEN age
           ELSE [on |-> TRUE,
                 c |-> [c \in Callers |->
                          IF pc'[c] = pc[c] /\ cop'[c] = cop[c] /\ Deadline(c) # 0
                          THEN age.c[c] ELSE 0],
                 w |-> [t \in Tasks |->
                          IF wstate'[t] = wstate[t] /\ WDeadline(t) # 0
                          THEN age.w[t] ELSE 0],
                 polls |-> age.polls,
                 cold |-> IF ColdReload THEN nextOp ELSE age.cold,
                 cfail |-> age.cfail,
                 touched |-> age.touched \/ marker' # marker]

\* Time is measured in whole units, so two timers can show the same age
\* when they expire.  The timer of the child invocation of a Call is then
\* served before the timer of the Call's caller.
InnerFirst(o) ==
    \A t \in Tasks :
        (wstate[t] = "call" /\ wcur[t].future = o) => Early(age.w[t], InnerTimeout)

\* What a step of the bridge does to the timers and to the files of the
\* code-entity tools.
Frame == AgeStep /\ UNCHANGED ent

\* The invocations a run may make.
OpLimit == IF age.on THEN TimedOps ELSE MaxOps

----------------------------------------------------------------------------
\* The code-entity tools are not in use.
EntOff == [fs |-> <<>>, commits |-> <<>>, n |-> 0, out |-> "none", path |-> <<>>]

\* Variant: the constructor makes no reload check.
InitLast_mutNoCheck(m) == 0

\* __init__: the remembered mtime is None and one reload check is made,
\* which records a marker that exists.
InitLast(m) == CheckNewLast(m, 0)

\* The bridge after construction
BridgeInit ==
    /\ marker \in 0..MaxMtime
    /\ last = InitLast(marker)
    /\ task = 0
    /\ rq = 0
    /\ wstate = [t \in Tasks |-> "none"]
    /\ wq = [t \in Tasks |-> <<>>]
    /\ wcur = [t \in Tasks |-> NoCmd]
    /\ wcancel = [t \in Tasks |-> FALSE]
    /\ open = [t \in Tasks |-> FALSE]
    /\ fut = [o \in Ops |-> NoFut]
    /\ sfut = [o \in Ops |-> "none"]
    /\ pc = [c \in Callers |-> "idle"]
    /\ cop = [c \in Callers |-> 0]
    /\ ltask = [c \in Callers |-> 0]
    /\ okind = [o \in Ops |-> "none"]
    /\ res = [o \in Ops |-> NoFut]
    /\ trig = [o \in Ops |-> 0]
    /\ nextOp = 1
    /\ enq = <<>>
    /\ disp = <<>>
    /\ fin = {}

Init == BridgeInit /\ age = AgeOff /\ ent = EntOff

----------------------------------------------------------------------------
\* The coroutine of caller c is over: its locals are gone.
Return(c) ==
    /\ pc' = [pc EXCEPT ![c] = "idle"]
    /\ cop' = [cop EXCEPT ![c] = 0]
    /\ ltask' = [ltask EXCEPT ![c] = 0]

\* Callers are anonymous coroutines and an idle one has no state: the next
\* operation is begun by the lowest-numbered idle caller.
FirstIdle(c) == pc[c] = "idle" /\ \A d \in Callers : d < c => pc[d] # "idle"

\* Environment: the marker file is created, touched (to any mtime) or removed.
MarkerSet(m) ==
    /\ m # marker
    /\ marker' = m
    /\ UNCHANGED <<last, task, rq, wstate, wq, wcur, wcancel, open, fut, sfut,
                   pc, cop, ltask, okind, res, trig, nextOp, enq, disp, fin>>
    /\ Frame

----------------------------------------------------------------------------
\* call_tool() from "Start if needed" to the wait on response_future (or
\* the raise).  Sets task, rq, wstate, wq, fut, pc, cop, ltask, res, enq.
Dispatch(c, o) ==
    LET starts == NeedStart /\ StartCond
        q == IF starts THEN NextTask ELSE rq
        old == IF task # 0 THEN wq[task] ELSE <<>>
        cur == IF starts THEN NewQueue(old) ELSE wq[q]
    IN  /\ starts => NextTask + Reserved(c) <= MaxTasks
        /\ task' = (IF starts THEN NextTask ELSE task)
        /\ rq' = q
        /\ IF q # 0
           THEN /\ wstate' = (IF starts THEN [wstate EXCEPT ![q] = "connect"] ELSE wstate)
                /\ wq' = [wq EXCEPT ![q] = QPut(cur, CallCmd(ArgsOf(o), o))]
                /\ enq' = Append(enq, [q |-> q, args |-> ArgsOf(o)])
                /\ fut' = [fut EXCEPT ![o] = Pending]
                /\ pc' = [pc EXCEPT ![c] = "await"]
                /\ cop' = [cop EXCEPT ![c] = o]
                /\ ltask' = [ltask EXCEPT ![c] = 0]
                /\ res' = res
           ELSE /\ res' = [res EXCEPT ![o] = Out("NoQueue", 0)]
                /\ Return(c)
                /\ UNCHANGED <<wstate, wq, enq, fut>>

\* Variant: stop() leaves the queue reference as it is.
RefAfterStop_mutKeep == rq

\* stop(): "self._request_queue = None", before the Stop is put
RefAfterStop == 0

\* stop() from its guard (found true) to the wait on stop_future.
\* Sets rq, wq, sfut, pc, cop, ltask.
EnterStop(c, o) ==
    /\ ltask' = [ltask EXCEPT ![c] = task]
    /\ cop' = [cop EXCEPT ![c] = o]
    /\ rq' = RefAfterStop
    /\ wq' = [wq EXCEPT ![rq] = QPut(wq[rq], StopCmd(o))]
    /\ sfut' = [sfut EXCEPT ![o] = "pending"]
    /\ pc' = [pc EXCEPT ![c] = "s_fut"]

\* call_tool() is entered by an idle caller.
InvokeBegin(c) ==
    /\ FirstIdle(c)
    /\ nextOp <= OpLimit
    /\ LET o == nextOp
           r == CheckReload(marker, last)
       IN  /\ last' = CheckNewLast(marker, last)
           /\ nextOp' = o + 1
           /\ okind' = [okind EXCEPT ![o] = "invoke"]
           /\ trig' = [trig EXCEPT ![o] = IF r /\ TaskAlive THEN task ELSE 0]
           /\ IF ReloadCond(r) /\ StopCond
              THEN /\ NextTask + Reserved(c) <= MaxTasks
                   /\ EnterStop(c, o)
                   /\ UNCHANGED <<task, wstate, fut, res, enq>>
              ELSE /\ Dispatch(c, o)
                   /\ UNCHANGED sfut
    /\ UNCHANGED <<marker, wcur, wcancel, open, disp, fin>>
    /\ Frame

\* stop() is entered by an idle caller (directly, as aexit() does).
StopBegin(c) ==
    /\ FirstIdle(c)
    /\ nextOp <= OpLimit
    /\ LET o == nextOp
       IN  /\ nextOp' = o + 1
           /\ okind' = [okind EXCEPT ![o] = "stop"]
           /\ IF StopCond
              THEN /\ EnterStop(c, o)
                   /\ res' = res
              ELSE /\ res' = [res EXCEPT ![o] = Out("returned", 0)]
                   /\ UNCHANGED <<rq, wq, sfut, pc, cop, ltask>>
    /\ UNCHANGED <<marker, last, task, wstate, wcur, wcancel, open, fut, trig,
                   enq, disp, fin>>
    /\ Frame

\* stop() returns to its caller: call_tool() goes on, a direct stop() is over.
\* Sets task, rq, wstate, wq, fut, pc, cop, ltask, res, enq.
StopReturn(c) ==
    IF okind[cop[c]] = "invoke"
    THEN Dispatch(c, cop[c])
    ELSE /\ res' = [res EXCEPT ![cop[c]] = Out("returned", 0)]
         /\ Return(c)
         /\ UNCHANGED <<task, rq, wstate, wq, fut, enq>>

\* stop() raises e to its caller; call_tool() and aexit() let CancelledError
\* through ("except Exception" does not catch it).
StopRaise(c, e) ==
    /\ res' = [res EXCEPT ![cop[c]] = Out(e, 0)]
    /\ Return(c)
    /\ UNCHANGED <<task, rq, wstate, wq, fut, enq>>

\* Variant: the stop() of caller c cancels whatever task is current.
CancelTarget_mutCurrent(c) == task

\* stop(): "task = self._task" before the first await; every task.cancel()
\* and every wait of that stop() is for this local reference.
CancelTarget(c) == ltask[c]

\* The wait on the task is over with e raised ("none": the task returned).
JoinOver(c, e, caught) ==
    IF e = "none" \/ caught THEN StopReturn(c) ELSE StopRaise(c, e)

\* wait_for(stop_future, 5.0) returns: the worker has set the future.
SFutDone(c) ==
    /\ pc[c] = "s_fut"
    /\ sfut[cop[c]] = "done"
    /\ pc' = [pc EXCEPT ![c] = "s_join"]
    /\ UNCHANGED <<marker, last, task, rq, wstate, wq, wcur, wcancel, open, fut,
                   sfut, cop, ltask, okind, res, trig, nextOp, enq, disp, fin>>
    /\ Frame

\* wait_for(stop_future, 5.0) expires: the future is cancelled, and the
\* handler of TimeoutError calls task.cancel() and waits for the task.
SFutTimeout(c) ==
    /\ pc[c] = "s_fut"
    /\ StopTimerCanFire(cop[c])
    /\ Due(age.c[c], StopTimeout)
    /\ sfut' = [sfut EXCEPT ![cop[c]] = "cancelled"]
    /\ wcancel' = [wcancel EXCEPT ![CancelTarget(c)] = @ \/ ~TaskDone(CancelTarget(c))]
    /\ pc' = [pc EXCEPT ![c] = "s_join2"]
    /\ UNCHANGED <<marker, last, task, rq, wstate, wq, wcur, open, fut,
                   cop, ltask, okind, res, trig, nextOp, enq, disp, fin>>
    /\ Frame

\* wait_for(task, 5.0) is over before its timer expired: the task has
\* finished, and what it raises goes to the handlers of the outer try.
SJoinDone(c) ==
    /\ pc[c] = "s_join"
    /\ TaskDone(ltask[c])
    /\ JoinOver(c, TaskRaises(ltask[c]), StopCatches(TaskRaises(ltask[c])))
    /\ UNCHANGED <<marker, last, wcur, wcancel, open, sfut, okind,
                   trig, nextOp, disp, fin>>
    /\ Frame

\* wait_for(task, 5.0) expires: it requests cancellation of the task and
\* raises TimeoutError when the task has finished; the handler of
\* TimeoutError then calls task.cancel() and waits for the task once more.
\* Both waits end when the task has finished; they are one suspension here.
SJoinTimeout(c) ==
    /\ pc[c] = "s_join"
    /\ ~TaskDone(ltask[c])
    /\ Due(age.c[c], JoinTimeout)
    /\ wcancel' = [wcancel EXCEPT ![CancelTarget(c)] = TRUE]
    /\ pc' = [pc EXCEPT ![c] = "s_join2"]
    /\ UNCHANGED <<marker, last, task, rq, wstate, wq, wcur, open, fut, sfut,
                   cop, ltask, okind, res, trig, nextOp, enq, disp, fin>>
    /\ Frame

\* wait_for(task, 1.0) ends because the task has finished (CancelledError
\* or its result): what it raises is swallowed and stop() returns.
SJoin2Done(c) ==
    /\ pc[c] = "s_join2"
    /\ TaskDone(ltask[c])
    /\ JoinOver(c, TaskRaises(ltask[c]), Join2Swallows(TaskRaises(ltask[c])))
    /\ UNCHANGED <<marker, last, wcur, wcancel, open, sfut, okind,
                   trig, nextOp, disp, fin>>
    /\ Frame

\* wait_for(task, 1.0) expires: it requests cancellation of the task once
\* more and goes on waiting until the task has finished.
SJoin2Timeout(c) ==
    /\ pc[c] = "s_join2"
    /\ ~TaskDone(ltask[c])
    /\ wcancel' = [wcancel EXCEPT ![CancelTarget(c)] = TRUE]
    /\ UNCHANGED <<marker, last, task, rq, wstate, wq, wcur, open, fut, sfut,
                   pc, cop, ltask, okind, res, trig, nextOp, enq, disp, fin>>
    /\ Frame

\* wait_for(response_future, 30.0) returns the result or raises the
\* exception the worker has set.
AwaitResult(c) ==
    /\ pc[c] = "await"
    /\ fut[cop[c]].k \notin {"pending", "cancelled", "none"}
    /\ res' = [res EXCEPT ![cop[c]] = fut[cop[c]]]
    /\ Return(c)
    /\ UNCHANGED <<marker, last, task, rq, wstate, wq, wcur, wcancel, open, fut,
                   sfut, okind, trig, nextOp, enq, disp, fin>>
    /\ Frame

\* wait_for(response_future, 30.0) expires: the future is cancelled and
\* call_tool() raises its timeout error.
AwaitTimeout(c) ==
    /\ pc[c] = "await"
    /\ OuterTimerCanFire(cop[c])
    /\ Due(age.c[c], OuterTimeout)
    /\ InnerFirst(cop[c])
    /\ fut' = [fut EXCEPT ![cop[c]] = Cancelled]
    /\ res' = [res EXCEPT ![cop[c]] = Out("TimeoutOuter", 0)]
    /\ Return(c)
    /\ UNCHANGED <<marker, last, task, rq, wstate, wq, wcur, wcancel, open,
                   sfut, okind, trig, nextOp, enq, disp, fin>>
    /\ Frame

----------------------------------------------------------------------------
\* _run_manager_task(request_queue): the worker task t

\* stdio_client, ClientSession and session.initialize() succeed.
WConnectOk(t) ==
    /\ wstate[t] = "connect"
    /\ ~wcancel[t]
    /\ open' = [open EXCEPT ![t] = TRUE]
    /\ wstate' = [wstate EXCEPT ![t] = AfterConnect(TRUE)]
    /\ UNCHANGED <<marker, last, task, rq, wq, wcur, wcancel, fut, sfut, pc, cop,
                   ltask, okind, res, trig, nextOp, enq, disp, fin>>
    /\ Frame

\* The child is spawned but the handshake raises: the contexts are left.
WConnectFail(t) ==
    /\ wstate[t] = "connect"
    /\ ~wcancel[t]
    /\ open' = [open EXCEPT ![t] = TRUE]
    /\ wstate' = [wstate EXCEPT ![t] = AfterConnect(FALSE)]
    /\ UNCHANGED <<marker, last, task, rq, wq, wcur, wcancel, fut, sfut, pc, cop,
                   ltask, okind, res, trig, nextOp, enq, disp, fin>>
    /\ Frame

\* wait_for(request_queue.get(), 60.0) expires on an empty queue: the loop
\* goes round and waits again.
WIdle(t) ==
    /\ wstate[t] = "loop"
    /\ ~wcancel[t]
    /\ wq[t] = <<>>
    /\ Due(age.w[t], IdleTimeout)
    /\ wstate' = [wstate EXCEPT ![t] = AfterIdle]
    /\ UNCHANGED <<marker, last, task, rq, wq, wcur, wcancel, open, fut, sfut,
                   pc, cop, ltask, okind, res, trig, nextOp, enq, disp, fin>>
    /\ age' = IF age.on
              THEN [age EXCEPT !.w[t] = 0, !.polls[t] = Min(@ + 1, MaxPolls)]
              ELSE age
    /\ UNCHANGED ent

\* request_queue.get() returns a command: "stop" resolves its future and
\* breaks the loop, "call" starts session.call_tool().
WGet(t) ==
    /\ wstate[t] = "loop"
    /\ ~wcancel[t]
    /\ wq[t] # <<>>
    /\ LET c == QHead(wq[t])
       IN  /\ wq' = [wq EXCEPT ![t] = QRest(wq[t])]
           /\ IF c.cmd = "stop"
              THEN /\ sfut' = (IF sfut[c.future] = "pending"
                               THEN [sfut EXCEPT ![c.future] = "done"]
                               ELSE sfut)
                   /\ wstate' = [wstate EXCEPT ![t] = AfterStop]
                   /\ UNCHANGED <<wcur, disp>>
              ELSE IF Dispatches(c)
              THEN /\ wstate' = [wstate EXCEPT ![t] = "call"]
                   /\ wcur' = [wcur EXCEPT ![t] = c]
                   /\ disp' = Append(disp, [t |-> t, args |-> c.args])
                   /\ sfut' = sfut
              ELSE UNCHANGED <<sfut, wstate, wcur, disp>>
    /\ UNCHANGED <<marker, last, task, rq, wcancel, open, fut, pc, cop, ltask,
                   okind, res, trig, nextOp, enq, fin>>
    /\ Frame

\* session.call_tool() ends (result, error result, internal timeout or
\* exception): the future is resolved unless it is done already.
WCallDone(t, r) ==
    /\ wstate[t] = "call"
    /\ ~wcancel[t]
    /\ IF r = "timeout" THEN Due(age.w[t], InnerTimeout) ELSE Early(age.w[t], InnerTimeout)
    /\ LET c == wcur[t]
           f == ResolveTarget(c)
       IN  /\ fut' = (IF FutureOpen(fut[f])
                      THEN [fut EXCEPT ![f] = Decode(r, c.args)]
                      ELSE fut)
           /\ fin' = fin \cup {c.args}
    /\ wcur' = [wcur EXCEPT ![t] = NoCmd]
    /\ wstate' = [wstate EXCEPT ![t] = AfterCall(r)]
    /\ UNCHANGED <<marker, last, task, rq, wq, wcancel, open, sfut, pc, cop,
                   ltask, okind, res, trig, nextOp, enq, disp>>
    /\ Frame

\* CancelledError is thrown into the task at its suspension point.  A
\* handler of the drain loop that catches it puts it in the future of the
\* Call in hand and goes round the loop; otherwise the contexts are left.
WCancelled(t) ==
    /\ wcancel[t]
    /\ wstate[t] \in {"connect", "loop", "call"}
    /\ LET caught == wstate[t] # "connect" /\ LoopCatches("CancelledError")
           f == ResolveTarget(wcur[t])
       IN  /\ wstate' = [wstate EXCEPT ![t] = IF caught THEN "loop" ELSE "closing"]
           /\ wcancel' = [wcancel EXCEPT ![t] = ~caught]
           /\ fut' = (IF caught /\ wstate[t] = "call" /\ FutureOpen(fut[f])
                      THEN [fut EXCEPT ![f] = Out("CancelledError", 0)]
                      ELSE fut)
    /\ wcur' = [wcur EXCEPT ![t] = NoCmd]
    /\ fin' = (IF wstate[t] = "call" THEN fin \cup {wcur[t].args} ELSE fin)
    /\ UNCHANGED <<marker, last, task, rq, wq, open, sfut, pc, cop,
                   ltask, okind, res, trig, nextOp, enq, disp>>
    /\ Frame

\* The contexts have been left (the session is closed) and the task ends.
WClose(t) ==
    /\ wstate[t] = "closing"
    /\ open' = [open EXCEPT ![t] = FALSE]
    /\ wstate' = [wstate EXCEPT ![t] = "done"]
    /\ UNCHANGED <<marker, last, task, rq, wq, wcur, wcancel, fut, sfut, pc, cop,
                   ltask, okind, res, trig, nextOp, enq, disp, fin>>
    /\ Frame

\* Leaving the contexts raises (the session or the child's pipes fail to
\* close): the contexts are left all the same, the handler around them logs
\* the exception and the task ends.
WCloseFail(t) ==
    /\ wstate[t] = "closing"
    /\ open[t]
    /\ open' = [open EXCEPT ![t] = FALSE]
    /\ wstate' = [wstate EXCEPT ![t] = AfterCloseError]
    /\ UNCHANGED <<marker, last, task, rq, wq, wcur, wcancel, fut, sfut, pc, cop,
                   ltask, okind, res, trig, nextOp, enq, disp, fin>>
    /\ age' = IF age.on THEN [age EXCEPT !.cfail = @ \cup {t}] ELSE age
    /\ UNCHANGED ent

----------------------------------------------------------------------------
CallerStep(c) ==
    \/ InvokeBegin(c)
    \/ StopBegin(c)
    \/ SFutDone(c)
    \/ SFutTimeout(c)
    \/ SJoinDone(c)
    \/ SJoinTimeout(c)
    \/ SJoin2Done(c)
    \/ SJoin2Timeout(c)
    \/ AwaitResult(c)
    \/ AwaitTimeout(c)

WorkerStep(t) ==
    \/ WConnectOk(t)
    \/ WConnectFail(t)
    \/ WIdle(t)
    \/ WGet(t)
    \/ \E r \in Responses : WCallDone(t, r)
    \/ WCancelled(t)
    \/ WClose(t)
    \/ WCloseFail(t)

Next ==
    \/ \E m \in 0..MaxMtime : MarkerSet(m)
    \/ \E c \in Callers : CallerStep(c)
    \/ \E t \in Tasks : WorkerStep(t)

Spec == Init /\ [][Next]_vars

\* ---- The code-entity tools: write_class and write_function ----

\* Number of writes in a run
MaxWrites == 2

\* Number of entity names
MaxNames == 2

ENames == 1..MaxNames

\* Paths, as sequences of components: a file named codemcp.toml, an ordinary
\* file, and a file inside a directory named codemcp.toml.
EPaths == {<<"repo", "codemcp.toml">>, <<"repo", "a.py">>,
           <<"repo", "codemcp.toml", "a.py">>}

\* os.path.basename
Basename(p) == p[Len(p)]

\* The lines of a text.  A text holds one-line statements at top level: an
\* import, a blank line, a class, a function, another statement, or a line
\* that is not Python.  n is the entity's name, b tells its bodies apart.
ELine(k, n, b) == [k |-> k, n |-> n, b |-> b]
BlankLine == ELine("blank", 0, 0)
JunkLine == ELine("junk", 0, 0)

\* A file: whether it exists, whether git tracks it, and its lines.
EFile(x, g, text) == [exists |-> x, tracked |-> g, text |-> text]
NoFile == EFile(FALSE, FALSE, <<>>)

InitFiles ==
    {NoFile,
     EFile(TRUE, TRUE, <<JunkLine>>),
     EFile(TRUE, FALSE, <<ELine("class", 1, 0)>>),
     EFile(TRUE, TRUE, <<ELine("import", 0, 0), ELine("class", 1, 0),
                         ELine("def", 1, 0)>>)}

\* The guard of both tools: the file's name is the project configuration's.
IsProtected_mutNever(p) == FALSE
IsProtected(p) == Basename(p) = "codemcp.toml"

\* parse_file: a text that is not valid Python raises ValueError.
ValidPython(text) == \A i \in 1..Len(text) : text[i].k # "junk"
ParseRaises(text) == IF ValidPython(text) THEN "none" ELSE "ValueError"

\* The handler around parsing in both tools catches SyntaxError only.
EntityCatches(e) == e = "SyntaxError"

\* The entity of kind k named n that parsing finds: its line, 0 if none
\* (of several definitions of one name the last is recorded).
EntityLine(text, k, n) ==
    LET S == {i \in 1..Len(text) : text[i].k = k /\ text[i].n = n}
    IN  IF S = {} THEN 0 ELSE CHOOSE i \in S : \A j \in S : j <= i

\* find_insertion_point: the number of lines that stay before the new code
RECURSIVE ScanInsertion(_, _, _)
ScanInsertion(text, i, import_end) ==
    IF i > Len(text) THEN Len(text)
    ELSE IF text[i].k \in {"import", "blank"} THEN ScanInsertion(text, i + 1, i)
    ELSE IF text[i].k \in {"class", "def"} THEN import_end
    ELSE ScanInsertion(text, i + 1, import_end)

find_insertion_point(text) == ScanInsertion(text, 1, 0)

\* The text with the lines new in place of line i
ReplaceEntity(text, i, new) ==
    SubSeq(text, 1, i - 1) \o new \o SubSeq(text, i + 1, Len(text))

\* The text with the lines new added at the insertion point, after a blank
\* line unless the line before is blank or there is none
InsertEntity(text, new) ==
    LET ip == find_insertion_point(text)
        sep == IF ip > 0 /\ text[ip].k # "blank" THEN <<BlankLine>> ELSE <<>>
    IN  SubSeq(text, 1, ip) \o sep \o new \o SubSeq(text, ip + 1, Len(text))

\* The text both tools write for an existing file whose text parses
MergeEntity(text, k, n, new) ==
    IF EntityLine(text, k, n) # 0
    THEN ReplaceEntity(text, EntityLine(text, k, n), new)
    ELSE InsertEntity(text, new)

\* The outcome of a tool: the error it raises, together with the file it
\* was called for
EntReject(p, e) == ent' = [ent EXCEPT !.n = @ + 1, !.out = e, !.path = p]

\* The file is written and the change committed (cok: the commit succeeds)
EntWrite(p, text, cok) ==
    ent' = [ent EXCEPT !.n = @ + 1, !.out = "ok", !.path = p,
                       !.fs[p] = EFile(TRUE, ent.fs[p].tracked \/ cok, text),
                       !.commits = IF cok THEN Append(@, p) ELSE @]

\* One call of a tool for the entity of kind k named n: perm is the answer
\* of the path and permission check, cok that of the commit.
WriteEntity(k, p, n, perm, cok) ==
    LET f == ent.fs[p]
        new == <<ELine(k, n, ent.n + 1)>>
    IN  /\ UNCHANGED bvars
        /\ UNCHANGED age
        /\ IF IsProtected(p)
           THEN EntReject(p, "ProtectedFile")
           ELSE IF ~perm
           THEN EntReject(p, "PermissionError")
           ELSE IF ~f.exists
           THEN EntWrite(p, new, cok)
           ELSE IF ~f.tracked
           THEN EntReject(p, "NotTracked")
           ELSE IF ParseRaises(f.text) = "none"
           THEN EntWrite(p, MergeEntity(f.text, k, n, new), cok)
           ELSE IF EntityCatches(ParseRaises(f.text))
           THEN EntWrite(p, f.text \o <<BlankLine>> \o new, cok)
           ELSE EntReject(p, ParseRaises(f.text))

write_class(p, n, perm, cok) ==
    /\ ent.n < MaxWrites
    /\ WriteEntity("class", p, n, perm, cok)

\* write_function for a function at top level (class_name is None)
write_function(p, n, perm, cok) ==
    /\ ent.n < MaxWrites
    /\ WriteEntity("def", p, n, perm, cok)

EntInit ==
    /\ BridgeInit
    /\ marker = 0
    /\ age = AgeOff
    /\ ent \in {[fs |-> f, commits |-> <<>>, n |-> 0, out |-> "none", path |-> <<>>] :
                  f \in [EPaths -> InitFiles]}

EntNext ==
    \E p \in EPaths, n \in ENames, perm \in BOOLEAN, cok \in BOOLEAN :
        \/ write_class(p, n, perm, cok)
        \/ write_function(p, n, perm, cok)

EntitySpec == EntInit /\ [][EntNext]_vars

\* ---- The same bridge with time measured ----

\* The timer of caller c is running / has expired.
TimerRuns(c) == Deadline(c) # 0
TimerDue(c) == TimerRuns(c) /\ age.c[c] >= Deadline(c)

\* Caller c is suspended on something that has not happened yet.
Waits(c) ==
    CASE pc[c] = "await" -> fut[cop[c]].k = "pending"
      [] pc[c] = "s_fut" -> sfut[cop[c]] = "pending"
      [] pc[c] \in {"s_join", "s_join2"} -> ~TaskDone(ltask[c])
      [] OTHER -> TRUE

\* Worker t has nothing to do at once: no command to take from its queue
\* and no cancellation to receive.
Settled(t) ==
    /\ ~(wstate[t] = "loop" /\ wq[t] # <<>>)
    /\ ~(wcancel[t] /\ wstate[t] \in {"connect", "loop", "call"})

\* Time passes, by one unit, for every running timer.  It passes only
\* while every coroutine is suspended on something that has not happened:
\* not while a timer has expired, a caller's wait is over, or a worker has
\* a command or a cancellation to take.  Connecting, a child invocation
\* and the closing of a session take time.
Tick ==
    /\ age.on
    /\ \A c \in Callers : ~TimerDue(c) /\ Waits(c)
    /\ \A t \in Tasks : Settled(t)
    /\ \A t \in Tasks : WDeadline(t) # 0 => age.w[t] < WDeadline(t)
    /\ age' = [on |-> TRUE,
               c |-> [c \in Callers |->
                        IF TimerRuns(c) THEN Min(age.c[c] + TickUnit, Deadline(c)) ELSE 0],
               w |-> [t \in Tasks |->
                        IF WDeadline(t) # 0
                        THEN Min(age.w[t] + TickUnit, WDeadline(t)) ELSE 0],
               polls |-> age.polls,
               cold |-> age.cold,
               cfail |-> age.cfail,
               touched |-> age.touched]
    /\ UNCHANGED bvars
    /\ UNCHANGED ent

TimedInit == BridgeInit /\ age = AgeZero /\ ent = EntOff

TimedNext == Next \/ Tick

TimedSpec == TimedInit /\ [][TimedNext]_vars

----------------------------------------------------------------------------
\* Fairness: the event loop runs a coroutine whose wait is over or whose
\* timer has expired, and the worker task when it can take a step.
CallerProgress(c) ==
    \/ SFutDone(c)
    \/ SFutTimeout(c)
    \/ SJoinDone(c)
    \/ SJoinTimeout(c)
    \/ SJoin2Done(c)
    \/ SJoin2Timeout(c)
    \/ AwaitResult(c)
    \/ AwaitTimeout(c)

FairSpec ==
    /\ Spec
    /\ \A c \in Callers : WF_vars(CallerProgress(c))
    /\ \A t \in Tasks : WF_vars(WorkerStep(t))

\* Fairness when the soft path may hang: the worker need not connect, take
\* a command or finish a child invocation, but a requested cancellation is
\* delivered and the contexts are left.
HangSpec ==
    /\ Spec
    /\ \A c \in Callers : WF_vars(CallerProgress(c))
    /\ \A t \in Tasks : WF_vars(WCancelled(t)) /\ WF_vars(WClose(t))

\* Fairness when a cancelled task may hang while it leaves its contexts:
\* callers go on and a requested cancellation is delivered, nothing more.
AbandonSpec ==
    /\ Spec
    /\ \A c \in Callers : WF_vars(CallerProgress(c))
    /\ \A t \in Tasks : WF_vars(WCancelled(t))

----------------------------------------------------------------------------
\* Derived views of the history

\* The Calls put on the queue of task t, and the child invocations task t
\* made, each in order.
QueueCalls(t) == SelectSeq(enq, LAMBDA e : e.q = t)
ChildCalls(t) == SelectSeq(disp, LAMBDA e : e.t = t)

\* Arguments of the child invocations of task t that have not ended.
InFlight(t) == {ChildCalls(t)[i].args : i \in 1..Len(ChildCalls(t))} \ fin

WasQueued(o) == \E i \in 1..Len(enq) : enq[i].args = ArgsOf(o)
WasDispatched(o) == \E i \in 1..Len(disp) : disp[i].args = ArgsOf(o)

Alive(t) == wstate[t] \notin {"none", "done"}

\* The step in which invocation o of call_tool() begins.
Began(o) == nextOp = o /\ nextOp' = o + 1 /\ okind'[o] = "invoke"

\* Outcomes that come from a child invocation.
FromChild == {"ok", "ChildError", "UnknownError", "TimeoutInternal", "TransportError"}

----------------------------------------------------------------------------
\* C1: the child invocations a worker makes are, in order, an initial part
\* of the Calls that were put on its queue (strict FIFO, nothing skipped or
\* reordered), and at most one child invocation of a session is in flight.
C1_FifoDispatch ==
    \A t \in Tasks :
        /\ Len(ChildCalls(t)) <= Len(QueueCalls(t))
        /\ \A i \in 1..Len(ChildCalls(t)) : ChildCalls(t)[i].args = QueueCalls(t)[i].args
        /\ Cardinality(InFlight(t)) <= 1

\* Two callers wait at the same time and both their Calls have been
\* dispatched by the same worker.
C1_Witness ==
    \E t \in Tasks :
        /\ Len(ChildCalls(t)) >= 2
        /\ \A c \in Callers :
              /\ pc[c] = "await"
              /\ \E i \in 1..Len(ChildCalls(t)) : ChildCalls(t)[i].args = ArgsOf(cop[c])

\* C2: an outcome that comes from the child (in the caller's future or
\* already given to the caller) belongs to a child invocation made with the
\* caller's own arguments, a value or error text is the one the child
\* produced for those arguments, and what the caller was given is what the
\* worker put in the caller's future.
C2_OwnOutcome ==
    \A o \in Ops : \A x \in {fut[o], res[o]} :
        /\ x.k \in FromChild => WasDispatched(o) /\ ArgsOf(o) \in fin
        /\ x.k = "ok" => x.v = Payload(ArgsOf(o))
        /\ x.k = "ChildError" => x.v = ErrText(ArgsOf(o))
        /\ res[o].k \in FromChild => res[o] = fut[o]

\* Two callers wait at the same time and each future holds the value for
\* its own request.
C2_Witness ==
    \E c \in Callers : \E d \in Callers \ {c} :
        /\ pc[c] = "await" /\ pc[d] = "await"
        /\ fut[cop[c]] = Out("ok", Payload(ArgsOf(cop[c])))
        /\ fut[cop[d]] = Out("ok", Payload(ArgsOf(cop[d])))

C4_OneTaskAlive ==
    Cardinality({t \in Tasks : Alive(t)}) <= 1

\* A second worker runs after the first was force-cancelled.
C4_Witness ==
    \E t \in Tasks : \E u \in Tasks :
        /\ t < u
        /\ wcancel[t] /\ TaskDone(t)
        /\ Alive(u)

\* C5: at most one child session is open.
C5_OneSessionOpen ==
    Cardinality({t \in Tasks : open[t]}) <= 1

\* A later worker has its session open after an invoke's stop() took the
\* hard-cancel path against a worker whose session was in use.
C5_Witness ==
    \E o \in Ops : \E u \in Tasks :
        /\ trig[o] # 0
        /\ sfut[o] = "cancelled"
        /\ Len(ChildCalls(trig[o])) > 0
        /\ u > trig[o]
        /\ open[u]

\* C6: a call_tool() that begins while the queue reference is cleared and
\* the old task has not finished is put on the queue of a live worker.
C6_ArrivalDuringRestart ==
    [][\A o \in Ops :
          (Began(o) /\ rq = 0 /\ TaskAlive)
              => /\ rq' # 0
                 /\ wstate'[rq'] \notin {"none", "done"}
                 /\ fut'[o] = Pending
                 /\ res'[o].k # "NoQueue"]_vars

\* C7: call_tool() gives its caller a value, a timeout error, a child error
\* or a transport error, and nothing else.
C7_TypedErrorsOnly ==
    \A o \in Ops :
        okind[o] = "invoke" =>
            res[o].k \in {"none", "ok", "TimeoutOuter", "TimeoutInternal",
                          "ChildError", "UnknownError", "TransportError"}

\* C8: the Call of an invoke whose reload check returned true while task
\* trig[o] was alive is put only on the queue of a later worker, started
\* after the old task finished and its session closed, and is dispatched
\* only by that later worker.
C8_ReloadFreshSession ==
    \A o \in Ops :
        trig[o] # 0 =>
            /\ \A i \in 1..Len(enq) :
                  enq[i].args = ArgsOf(o) =>
                      /\ enq[i].q > trig[o]
                      /\ TaskDone(trig[o])
                      /\ ~open[trig[o]]
            /\ \A i \in 1..Len(disp) :
                  disp[i].args = ArgsOf(o) => disp[i].t > trig[o]

\* After a reload the Call was served by the new session.
C8_Witness ==
    \E o \in Ops :
        /\ trig[o] # 0
        /\ WasDispatched(o)
        /\ res[o] = Out("ok", Payload(ArgsOf(o)))

\* C9: (a) the first call_tool(), with the marker absent and never seen,
\* starts a worker and issues no Stop; (b) a call_tool() that sees the marker
\* for the first time while a worker is running issues no Stop, keeps the
\* worker and puts its Call on the current queue; (c) a call_tool() that
\* sees a later mtime while a worker is running issues Stop to the old
\* queue and has neither started a worker nor queued its Call by then, and
\* the Call of an invoke that issued Stop is dispatched only by a worker
\* started after the stopped one.
C9_EndToEnd ==
    /\ [](\A o \in Ops : \A i \in 1..Len(disp) :
            (sfut[o] # "none" /\ okind[o] = "invoke" /\ disp[i].args = ArgsOf(o))
                => disp[i].t > trig[o] /\ trig[o] # 0)
    /\ [][\A o \in Ops :
          Began(o) =>
            /\ (task = 0 /\ marker = 0 /\ last = 0)
                 => /\ sfut' = sfut
                    /\ task' # 0 /\ rq' = task'
                    /\ wstate'[task'] = "connect"
                    /\ enq' = Append(enq, [q |-> task', args |-> ArgsOf(o)])
            /\ (StopCond /\ marker # 0 /\ last = 0)
                 => /\ sfut' = sfut
                    /\ last' = marker
                    /\ task' = task /\ rq' = rq /\ wstate' = wstate
                    /\ enq' = Append(enq, [q |-> rq, args |-> ArgsOf(o)])
            /\ (StopCond /\ last # 0 /\ marker > last)
                 => /\ sfut'[o] = "pending"
                    /\ wq'[rq] = Append(wq[rq], StopCmd(o))
                    /\ last' = marker
                    /\ task' = task /\ wstate' = wstate
                    /\ enq' = enq]_vars

\* The sequence has run: the first two Calls went to the first worker, the
\* third invoke reloaded and its Call was dispatched by the second worker.
C9_Witness ==
    /\ Len(enq) = 3
    /\ enq[1] = [q |-> 1, args |-> ArgsOf(1)]
    /\ enq[2] = [q |-> 1, args |-> ArgsOf(2)]
    /\ enq[3] = [q |-> 2, args |-> ArgsOf(3)]
    /\ trig[1] = 0 /\ trig[2] = 0 /\ trig[3] = 1
    /\ last = MaxMtime /\ marker = MaxMtime
    /\ \E i \in 1..Len(disp) : disp[i] = [t |-> 2, args |-> ArgsOf(3)]

\* C10: the reload check returns true exactly when the marker is absent
\* and an mtime is remembered, or the marker is present, an mtime is
\* remembered and the marker's mtime is strictly newer; the memory is
\* cleared in the first case, set to the marker's mtime in the second and
\* on a first sighting, and left alone otherwise.  (The returned value is
\* read off the invoke that made the check while a worker was alive.)
C10_CheckCases ==
    [][\A o \in Ops :
          Began(o) =>
            LET removed == marker = 0 /\ last # 0
                newer == marker # 0 /\ last # 0 /\ marker > last
                first == marker # 0 /\ last = 0
            IN  /\ TaskAlive => ((trig'[o] # 0) <=> (removed \/ newer))
                /\ removed => last' = 0
                /\ (newer \/ first) => last' = marker
                /\ ~(removed \/ newer \/ first) => last' = last]_vars

\* A check made while a worker was alive returned true for a newer mtime.
C10_Witness ==
    \E o \in Ops : trig[o] # 0 /\ last = MaxMtime /\ marker = MaxMtime

\* Outcomes of a Call that did not succeed.
Failed == {"ChildError", "UnknownError", "TimeoutInternal", "TransportError"}

\* The operation whose Call is the i-th child invocation of task t.
OpOfCall(t, i) == CHOOSE o \in Ops : ArgsOf(o) = ChildCalls(t)[i].args

\* C11: when a child invocation ends, whatever its result, the worker is
\* back at the head of the drain loop with its session open, its queue
\* untouched and the task and queue references unchanged, unless the task
\* was cancelled; and a worker leaves the drain loop only by dequeuing Stop
\* or by cancellation.
C11_FailedCallKeepsSession ==
    [][\A t \in Tasks :
          /\ (wstate[t] = "call" /\ wstate'[t] # "call")
                => \/ wcancel[t] /\ wstate'[t] = "closing"
                   \/ /\ wstate'[t] = "loop"
                      /\ open[t] /\ open'[t]
                      /\ wq'[t] = wq[t]
                      /\ task' = task /\ rq' = rq
          /\ (wstate[t] \in {"loop", "call"} /\ wstate'[t] \notin {"loop", "call"})
                => /\ wstate'[t] = "closing"
                   /\ \/ wcancel[t]
                      \/ /\ wstate[t] = "loop"
                         /\ wq[t] # <<>>
                         /\ Head(wq[t]).cmd = "stop"]_vars

\* A worker's first Call failed and its second Call was served by the same
\* worker.
C11_Witness ==
    \E t \in Tasks :
        /\ Len(ChildCalls(t)) >= 2
        /\ fut[OpOfCall(t, 1)].k \in Failed
        /\ res[OpOfCall(t, 2)].k = "ok"

\* C12: an internal timeout of a child invocation puts the timeout error in
\* the Call's future (unless the future is done already), leaves the worker
\* at the head of the drain loop with its session open, and as long as no
\* stop was issued to the worker that timed out, that worker is the current
\* one, in its drain loop with its session open.
C12_InternalTimeout ==
    /\ [](\A o \in Ops : \A i \in 1..Len(disp) :
            (fut[o].k = "TimeoutInternal" /\ disp[i].args = ArgsOf(o) /\ rq = disp[i].t)
                => /\ task = rq
                   /\ wstate[rq] \in {"loop", "call"}
                   /\ open[rq]
                   /\ ~wcancel[rq])
    /\ [][\A t \in Tasks :
            (wstate[t] = "call" /\ WCallDone(t, "timeout"))
                => /\ fut[wcur[t].future].k = "pending"
                       => fut'[wcur[t].future] = [k |-> "TimeoutInternal", v |-> 0]
                   /\ fut[wcur[t].future].k # "pending"
                       => fut'[wcur[t].future] = fut[wcur[t].future]
                   /\ wstate'[t] = "loop"
                   /\ open'[t]
                   /\ wq'[t] = wq[t]]_vars

\* A Call timed out internally and the next Call of the same worker
\* succeeded.
C12_Witness ==
    \E t \in Tasks :
        /\ Len(ChildCalls(t)) >= 2
        /\ res[OpOfCall(t, 1)].k = "TimeoutInternal"
        /\ res[OpOfCall(t, 2)] = Out("ok", Payload(ArgsOf(OpOfCall(t, 2))))
        /\ open[t]

\* C13: a non-error result puts the child's payload in the future, an error
\* result with a single text item puts a child error with exactly that text,
\* an error result of any other shape puts the error with the fixed message,
\* and call_tool() gives its caller what the future holds.
C13_DecodeCases ==
    /\ [][\A t \in Tasks : \A r \in {"ok", "errtext", "errother"} :
            (wstate[t] = "call" /\ WCallDone(t, r) /\ fut[wcur[t].future].k = "pending")
                => fut'[wcur[t].future] =
                     (CASE r = "ok" -> [k |-> "ok", v |-> Payload(wcur[t].args)]
                        [] r = "errtext" -> [k |-> "ChildError", v |-> ErrText(wcur[t].args)]
                        [] r = "errother" -> [k |-> "UnknownError", v |-> 0])]_vars
    /\ [][\A c \in Callers :
            (pc[c] = "await" /\ AwaitResult(c)) => res'[cop[c]] = fut[cop[c]]]_vars

\* The three cases have been given to callers.
C13_Witness ==
    \E o1 \in Ops : \E o2 \in Ops : \E o3 \in Ops :
        /\ res[o1] = Out("ok", Payload(ArgsOf(o1)))
        /\ res[o2] = Out("ChildError", ErrText(ArgsOf(o2)))
        /\ res[o3] = Out("UnknownError", 0)

StopBegan(o) == nextOp = o /\ nextOp' = o + 1 /\ okind'[o] = "stop"

\* C15: a stop() that begins when there is no task or the task has finished
\* returns at once and changes nothing: no Command is put on any queue, no
\* worker is started or cancelled, and the task reference, the queue
\* reference and the reload memory stay as they are.
C15_StopIdleNoop ==
    [][\A o \in Ops :
          (StopBegan(o) /\ (task = 0 \/ TaskDone(task)))
              => /\ res'[o] = Out("returned", 0)
                 /\ wq' = wq /\ enq' = enq /\ sfut' = sfut
                 /\ wstate' = wstate /\ wcancel' = wcancel /\ open' = open
                 /\ task' = task /\ rq' = rq /\ last' = last
                 /\ pc' = pc]_vars

\* A stop() was called after the current worker had finished on its own
\* (the queue reference was never cleared, so the guard of that stop() was
\* false because the task was done) and returned without issuing Stop.
C15_Witness ==
    \E o \in Ops : \E o2 \in Ops :
        /\ okind[o] = "stop" /\ sfut[o] = "none" /\ res[o].k = "returned"
        /\ task # 0 /\ rq = task /\ TaskDone(task)
        /\ o2 < o
        /\ \E i \in 1..Len(enq) : enq[i] = [q |-> task, args |-> ArgsOf(o2)]

\* C16: a stop() called directly gives its caller nothing but a normal
\* return, and a call_tool() that has not yet reached its dispatch (it is in
\* or before its stop()) has raised nothing but the missing-queue error of
\* call_tool() itself.
C16_StopNeverRaises ==
    \A o \in Ops :
        /\ okind[o] = "stop" => res[o].k \in {"none", "returned"}
        /\ (okind[o] = "invoke" /\ fut[o].k = "none") => res[o].k \in {"none", "NoQueue"}

\* A stop() that found the worker running a Call timed out on its
\* stop_future, force-terminated the worker and returned normally.
C16_Witness ==
    \E o \in Ops : \E o2 \in Ops : \E t \in Tasks :
        /\ okind[o] = "stop" /\ sfut[o] = "cancelled" /\ res[o].k = "returned"
        /\ wcancel[t] /\ TaskDone(t)
        /\ \E i \in 1..Len(wq[t]) : wq[t][i] = StopCmd(o)
        /\ \E i \in 1..Len(disp) : disp[i] = [t |-> t, args |-> ArgsOf(o2)]
        /\ pc[1] = "await" /\ cop[1] = o2 /\ fut[o2].k = "pending"

C18_NoCarryOver ==
    /\ [](\A o \in Ops :
            /\ Cardinality({i \in 1..Len(enq) : enq[i].args = ArgsOf(o)}) <= 1
            /\ Cardinality({i \in 1..Len(disp) : disp[i].args = ArgsOf(o)}) <= 1
            /\ \A i \in 1..Len(disp) : \A j \in 1..Len(enq) :
                  (disp[i].args = ArgsOf(o) /\ enq[j].args = ArgsOf(o))
                      => disp[i].t = enq[j].q
            /\ \A j \in 1..Len(enq) :
                  (enq[j].args = ArgsOf(o) /\ TaskDone(enq[j].q) /\ fut[o].k \notin FromChild)
                      => /\ fut[o].k \in {"pending", "cancelled"}
                         /\ res[o].k \in {"none", "TimeoutOuter"})
    /\ [][\A t \in Tasks : TaskDone(t) => wq'[t] = wq[t] /\ wstate'[t] = "done"]_vars

\* A Call was left in the queue of a force-terminated worker and its caller
\* got the timeout error, while a later worker has dispatched another Call.
C18_Witness ==
    \E o \in Ops : \E t \in Tasks : \E u \in Tasks :
        /\ TaskDone(t)
        /\ \E i \in 1..Len(wq[t]) : wq[t][i] = CallCmd(ArgsOf(o), o)
        /\ res[o].k = "TimeoutOuter"
        /\ u > t
        /\ Len(ChildCalls(u)) > 0

\* C19: a worker whose connection or handshake fails leaves its contexts
\* without touching its queue, any future or the child; a worker that is
\* leaving or has left never enters the drain loop; and the Calls put on
\* the queue of a worker that ended without a child invocation stay
\* unresolved, so that their callers get nothing but the timeout error of
\* call_tool().
C19_ConnectFailure ==
    /\ [][\A t \in Tasks :
            (wstate[t] = "connect" /\ WConnectFail(t))
                => /\ wstate'[t] = "closing"
                   /\ disp' = disp /\ wq' = wq /\ fut' = fut]_vars
    /\ [][\A t \in Tasks :
            wstate[t] \in {"closing", "done"} => wstate'[t] \in {"closing", "done"}]_vars
    /\ [](\A t \in Tasks : \A o \in Ops : \A j \in 1..Len(enq) :
            (/\ wstate[t] \in {"closing", "done"}
             /\ Len(ChildCalls(t)) = 0
             /\ enq[j] = [q |-> t, args |-> ArgsOf(o)])
                => /\ fut[o].k \in {"pending", "cancelled"}
                   /\ res[o].k \in {"none", "TimeoutOuter"})

\* The first worker failed to connect (it was never cancelled and no stop
\* was issued to it) and the invoke that started it got the timeout error.
C19_Witness ==
    /\ TaskDone(1) /\ ~wcancel[1]
    /\ Len(ChildCalls(1)) = 0
    /\ wq[1] = <<CallCmd(ArgsOf(1), 1)>>
    /\ res[1].k = "TimeoutOuter"

\* C20: no future and no caller is ever given a cancellation error, a
\* response future is cancelled only by the timer of its own call_tool()
\* (whose caller gets the timeout error), and cancellation of a worker is
\* requested only by a stop() whose timer expired.
C20_NoCancellationSurfaces ==
    /\ [](\A o \in Ops :
            /\ res[o].k # "CancelledError"
            /\ fut[o].k # "CancelledError"
            /\ fut[o].k = "cancelled" => res[o].k = "TimeoutOuter")
    /\ [][\A t \in Tasks :
            (wcancel'[t] /\ ~wcancel[t])
                => \E c \in Callers :
                      /\ ltask[c] = t
                      /\ pc[c] \in StopPcs
                      /\ pc'[c] = "s_join2"]_vars

\* A worker was force-terminated while the child invocation of a Call was
\* in flight: the invocation has ended, the worker has finished, and the
\* caller still waits on the unresolved future.
C20_Witness ==
    \E c \in Callers : \E t \in Tasks :
        /\ pc[c] = "await" /\ fut[cop[c]].k = "pending"
        /\ wcancel[t] /\ TaskDone(t)
        /\ Len(ChildCalls(t)) > 0
        /\ ChildCalls(t)[Len(ChildCalls(t))].args = ArgsOf(cop[c])
        /\ ArgsOf(cop[c]) \in fin

----------------------------------------------------------------------------
\* C21: write_class and write_function reject every target whose file name
\* is codemcp.toml with the protected-file error, whatever the other checks
\* would have answered, and the call leaves every file (existing or not)
\* and the list of commits as they were.
C21_ProtectedRejected ==
    [][\A p \in EPaths :
         (ent'.n = ent.n + 1 /\ ent'.path = p /\ Basename(p) = "codemcp.toml")
         => /\ ent'.out = "ProtectedFile"
            /\ ent'.fs = ent.fs
            /\ ent'.commits = ent.commits]_vars

\* A call for a codemcp.toml that does not exist was rejected, and the file
\* still does not exist, after an earlier call had written another file.
C21_Witness ==
    /\ ent.n = 2
    /\ ent.out = "ProtectedFile"
    /\ ent.path = <<"repo", "codemcp.toml">>
    /\ ~ent.fs[ent.path].exists
    /\ Len(ent.commits) = 1

\* C22: a future is set at most once.  Once a response future holds an
\* outcome or has been cancelled by the caller's timeout, and once a stop
\* future is done or cancelled, no step changes it; a worker whose child
\* invocation ends when the future is no longer pending leaves every
\* future as it is and goes on with its loop (the worker is not being
\* cancelled).
C22_SingleAssignment ==
    [][/\ \A o \in Ops :
            /\ fut[o].k \notin {"none", "pending"} => fut'[o] = fut[o]
            /\ sfut[o] \in {"done", "cancelled"} => sfut'[o] = sfut[o]
       /\ \A t \in Tasks :
            (/\ wstate[t] = "call"
             /\ wstate'[t] # "call"
             /\ ~wcancel[t]
             /\ fut[wcur[t].future].k # "pending")
            => fut' = fut /\ wstate'[t] = "loop"]_vars

\* The caller of o gave up, and afterwards the child invocation of o ended
\* in the worker, which is back in its loop; nothing was ever stopped.
C22_Witness ==
    \E o \in Ops :
        /\ fut[o] = Cancelled
        /\ ArgsOf(o) \in fin
        /\ task # 0
        /\ wstate[task] = "loop"
        /\ \E i \in 1..Len(disp) : disp[i] = [t |-> task, args |-> ArgsOf(o)]
        /\ \A o2 \in Ops : sfut[o2] = "none"

\* C23: the current queue and the current task are replaced in one step: a
\* step installs a new queue exactly when it installs a new task, and a
\* current queue is always the queue of the current task.  Every Call is
\* put into the current queue, and the task draining that queue has been
\* launched (at the latest by the same call of call_tool) and has not
\* finished when the Call is put.
C23_QueueWithWorker ==
    [][/\ (task' # task) <=> (rq' # rq /\ rq' # 0)
       /\ rq' # 0 => rq' = task'
       /\ enq' # enq =>
            LET e == enq'[Len(enq')]
            IN  /\ e.q = rq'
                /\ e.q = task'
                /\ wstate'[e.q] \notin {"none", "done"}
                /\ e.q = task => wstate[e.q] \notin {"none", "done"}]_vars

\* Two Calls were put into the queue of one worker, and a later Call into
\* the queue of the worker that replaced it.
C23_Witness ==
    /\ Len(enq) = 3
    /\ enq[1].q = 1
    /\ enq[2].q = 1
    /\ enq[3].q = 2
    /\ wstate[1] = "done"

\* C24: when the wait of call_tool() expires the caller gets the timeout
\* error and the step touches neither the queues, nor the command in the
\* worker's hand, nor the worker or its session; an outcome given to a
\* caller never changes; a worker that dequeues a Call invokes the child
\* for it also when its caller has given up; and when that invocation ends
\* the worker changes no future and is back in its loop.
C24_TimeoutLeavesCommand ==
    [][/\ \A c \in Callers :
            (pc[c] = "await" /\ pc'[c] # "await" /\ fut[cop[c]].k = "pending")
            => /\ res'[cop[c]] = Out("TimeoutOuter", 0)
               /\ UNCHANGED <<wq, wcur, wstate, open, task, rq, wcancel>>
       /\ \A o \in Ops : res[o].k # "none" => res'[o] = res[o]
       /\ \A t \in Tasks :
            /\ (wq'[t] # wq[t] /\ Len(wq'[t]) < Len(wq[t]) /\ QHead(wq[t]).cmd = "call")
               => wstate'[t] = "call" /\ wcur'[t] = QHead(wq[t])
            /\ (/\ wstate[t] = "call"
                /\ wstate'[t] # "call"
                /\ ~wcancel[t]
                /\ res[wcur[t].future].k = "TimeoutOuter")
               => fut' = fut /\ wstate'[t] = "loop" /\ open'[t] = open[t]]_vars

\* The caller of o has been given the timeout error, an earlier Call of the
\* same worker has been answered, and the child is being invoked for o's
\* Call.
C24_Witness ==
    \E o \in Ops :
        /\ res[o] = Out("TimeoutOuter", 0)
        /\ task # 0
        /\ wstate[task] = "call"
        /\ wcur[task].future = o
        /\ Len(ChildCalls(task)) = 2
        /\ \E o1 \in Ops : o1 # o /\ res[o1].k = "ok"

\* C25: whenever a child invocation has stalled for the whole internal
\* timeout and is ended by it, the future of its Call receives the
\* internal timeout error (so the caller gets that error and has not been
\* given the outer timeout error before).
C25_InternalTimeoutFirst ==
    [][\A t \in Tasks :
         (/\ wstate[t] = "call"
          /\ wstate'[t] # "call"
          /\ ~wcancel[t]
          /\ age.w[t] >= InnerTimeout)
         => /\ fut'[wcur[t].future] = Out("TimeoutInternal", 0)
            /\ res[wcur[t].future].k # "TimeoutOuter"]_vars

\* C26: a worker that dequeues a Stop sets the Stop's future (if it is
\* still pending) and leaves its loop in that step, with its session as it
\* was; a task finishes only from the closing of its contexts, and its
\* session is closed when it has finished; and a stop() that got its
\* future set returns only when the task has finished, its session closed.
C26_StopOrder ==
    [][/\ \A t \in Tasks :
            /\ (Len(wq'[t]) < Len(wq[t]) /\ QHead(wq[t]).cmd = "stop")
               => /\ sfut[QHead(wq[t]).future] = "pending"
                       => sfut'[QHead(wq[t]).future] = "done"
                  /\ wstate'[t] = "closing"
                  /\ open'[t] = open[t]
            /\ (wstate'[t] = "done" /\ wstate[t] # "done")
               => wstate[t] = "closing" /\ ~open'[t]
            /\ wstate[t] = "done" => ~open[t]
       /\ \A c \in Callers :
            (pc[c] = "s_join" /\ pc'[c] \notin StopPcs)
            => wstate[ltask[c]] = "done" /\ ~open[ltask[c]]]_vars

\* A stop() has returned on the soft path: its future was set by the
\* worker, which had served a Call before, has finished and has closed its
\* session.
C26_Witness ==
    \E o \in Ops :
        /\ okind[o] = "stop"
        /\ res[o] = Out("returned", 0)
        /\ sfut[o] = "done"
        /\ wstate[1] = "done"
        /\ ~wcancel[1]
        /\ ~open[1]
        /\ Len(ChildCalls(1)) > 0

\* C27: a worker task is force-terminated only by a stop() that has
\* enqueued its Stop and whose wait for the Stop's future or for the task
\* has expired; and a stop() that waits for the task after the
\* force-terminate returns, whether or not the task finishes.
C27_TwoTierThenReturn ==
    /\ [][\A t \in Tasks :
            (wcancel'[t] /\ ~wcancel[t])
            => \E c \in Callers :
                  /\ pc[c] \in {"s_fut", "s_join"}
                  /\ pc'[c] = "s_join2"
                  /\ ltask[c] = t
                  /\ sfut[cop[c]] # "none"]_vars
    /\ \A c \in Callers : (pc[c] = "s_join2") ~> (pc[c] \notin StopPcs)

\* C28: the queue of a task that has been replaced is never touched again,
\* and in the step that replaces a task every Call left in its queue has
\* already been answered to its caller with the timeout error, and the wait
\* for every Stop left in it has already expired.
C28_AbandonedAlreadyFailed ==
    [][/\ \A t \in Tasks : (task # 0 /\ t < task) => wq'[t] = wq[t]
       /\ (task # 0 /\ task' # task) =>
            \A i \in 1..Len(wq[task]) :
                IF wq[task][i].cmd = "call"
                THEN res[wq[task][i].future] = Out("TimeoutOuter", 0)
                ELSE sfut[wq[task][i].future] = "cancelled"]_vars

\* C29: when the wait for the next command expires, the step leaves the
\* worker in its loop and changes neither a session, a queue, a future,
\* the command in a worker's hand, the current task and queue, nor any
\* caller; and a worker that waits at an empty queue and is not being
\* cancelled stays in its loop with its session as it is, whatever step is
\* taken and however many expiries have occurred.
C29_IdleExpiryIsEmptyPoll ==
    [][\A t \in Tasks :
         /\ (/\ wstate[t] = "loop"
             /\ wq[t] = <<>>
             /\ ~wcancel[t]
             /\ age.w[t] >= IdleTimeout
             /\ age'.w[t] = 0)
            => UNCHANGED bvars
         /\ (wstate[t] = "loop" /\ wq[t] = <<>> /\ ~wcancel[t])
            => wstate'[t] = "loop" /\ open'[t] = open[t]]_vars

\* The wait of a worker that has served a Call has expired MaxPolls times;
\* the worker is in its loop, its session open, and a caller is waiting
\* for the answer to a Call it has just put into the worker's queue.
C29_Witness ==
    \E t \in Tasks :
        /\ age.polls[t] = MaxPolls
        /\ wstate[t] = "loop"
        /\ open[t]
        /\ task = t
        /\ Len(ChildCalls(t)) > 0
        /\ wq[t] # <<>>

\* C30: a call_tool() issues Stop only when its reload check answers true
\* and a task is alive.  When the check answers true and no task is alive
\* it issues no Stop, starts a worker and puts its Call on the new queue.
\* The check uses the trigger up: asked again with the same marker it
\* answers false, so a call_tool() that follows with the marker unchanged
\* issues no Stop and keeps a worker that is alive.
C30_ColdReloadJustStarts ==
    [][\A o \in Ops :
          Began(o) =>
            /\ sfut' # sfut => (CheckReload(marker, last) /\ TaskAlive)
            /\ (CheckReload(marker, last) /\ ~TaskAlive)
                 => /\ sfut' = sfut
                    /\ task' = NextTask /\ rq' = task'
                    /\ wstate'[task'] = "connect"
                    /\ enq' = Append(enq, [q |-> task', args |-> ArgsOf(o)])
            /\ ~CheckReload(marker, last')
            /\ ~CheckReload(marker, last)
                 => /\ sfut' = sfut
                    /\ (TaskAlive /\ rq # 0) => (task' = task /\ rq' = rq)]_vars

\* The first call_tool() found the reload check true with no task alive and
\* started the worker; the next one, with the marker as it was, has been
\* answered by the same worker, and no Stop was ever issued.
C30_Witness ==
    /\ age.cold = 1
    /\ marker = last
    /\ enq = <<[q |-> 1, args |-> ArgsOf(1)], [q |-> 1, args |-> ArgsOf(2)]>>
    /\ \A o \in Ops : sfut[o] = "none"
    /\ res[2] = Out("ok", Payload(ArgsOf(2)))

----------------------------------------------------------------------------
\* C31: when the closing of a session raises, the task finishes in that
\* very step with its session closed, and the step gives nothing to any
\* caller and changes no future; a stop() that waited for such a task
\* returns normally (a direct stop() to its caller, the stop() inside a
\* call_tool() to call_tool(), which goes on); and a call_tool() that
\* comes to its dispatch when the current task is one whose close raised
\* starts a fresh worker with a fresh queue and puts its Call there.
C31_CloseFailureSwallowed ==
    [][/\ \A t \in Tasks :
            (t \notin age.cfail /\ t \in age'.cfail)
            => /\ wstate[t] = "closing"
               /\ wstate'[t] = "done"
               /\ ~open'[t]
               /\ res' = res /\ fut' = fut /\ sfut' = sfut /\ pc' = pc
       /\ \A c \in Callers :
            (pc[c] \in StopPcs /\ pc'[c] \notin StopPcs /\ ltask[c] \in age.cfail)
            => IF okind[cop[c]] = "stop"
               THEN res'[cop[c]] = Out("returned", 0)
               ELSE /\ res'[cop[c]].k = "none"
                    /\ pc'[c] = "await"
       /\ \A c \in Callers :
            (/\ pc'[c] = "await"
             /\ pc[c] # "await"
             /\ task # 0
             /\ task \in age.cfail)
            => /\ task' = NextTask
               /\ rq' = task'
               /\ wstate'[task'] = "connect"
               /\ wq'[task'] = <<CallCmd(ArgsOf(cop'[c]), cop'[c])>>]_vars

\* A call_tool() found the marker changed and stopped the first worker; the
\* worker took the Stop, the closing of its session raised, the stop()
\* returned, and the Call was answered by the second worker.
C31_Witness ==
    \E o \in Ops :
        /\ trig[o] = 1
        /\ 1 \in age.cfail
        /\ sfut[o] = "done"
        /\ ~wcancel[1]
        /\ task = 2
        /\ res[o] = Out("ok", Payload(ArgsOf(o)))

\* C32: a call of write_class or write_function for an existing file whose
\* text is not valid Python, when the guard, the permission check and the
\* tracking check let it pass, succeeds and writes the old text, a blank
\* line and the new code.
C32_InvalidPythonAppends ==
    [][\A p \in EPaths :
         (/\ ent'.n = ent.n + 1
          /\ ent'.path = p
          /\ ent.fs[p].exists
          /\ ~ValidPython(ent.fs[p].text)
          /\ ent'.out \notin {"ProtectedFile", "PermissionError", "NotTracked"})
         => /\ ent'.out = "ok"
            /\ Len(ent'.fs[p].text) = Len(ent.fs[p].text) + 2
            /\ SubSeq(ent'.fs[p].text, 1, Len(ent.fs[p].text)) = ent.fs[p].text
            /\ ent'.fs[p].text[Len(ent.fs[p].text) + 1] = BlankLine
            /\ ent'.fs[p].text[Len(ent.fs[p].text) + 2].k \in {"class", "def"}]_vars

\* C33: a Stop is the last command of the queue it is in (no Call is ever
\* put behind it); the step that puts a Stop clears the queue reference
\* and puts the Stop at the end of the queue the reference named, in one
\* step; and when a worker takes a Stop from its queue the queue is empty.
C33_NoCallBehindStop ==
    /\ [](\A t \in Tasks : \A i \in 1..Len(wq[t]) :
            wq[t][i].cmd = "stop" => i = Len(wq[t]))
    /\ [][\A o \in Ops :
            (sfut[o] = "none" /\ sfut'[o] # "none")
            => /\ rq # 0
               /\ rq' = 0
               /\ wq'[rq] = Append(wq[rq], StopCmd(o))]_vars
    /\ [][\A t \in Tasks :
            (Len(wq'[t]) < Len(wq[t]) /\ QHead(wq[t]).cmd = "stop")
            => wq'[t] = <<>>]_vars

\* A worker has taken a Stop that was put behind two Calls, both of which
\* it had dispatched before, and its queue is empty.
C33_Witness ==
    \E t \in Tasks :
        /\ wstate[t] = "closing"
        /\ ~wcancel[t]
        /\ wq[t] = <<>>
        /\ Len(QueueCalls(t)) = 2
        /\ Len(ChildCalls(t)) = 2
        /\ \E o \in Ops : sfut[o] = "done"

\* C34: a change of the marker triggers one reload at most.  The check of
\* a call_tool() and the update of the remembered mtime are one step, and
\* after that step the check answers false for the marker as it is; the
\* remembered mtime changes in no other step; as long as the marker stays
\* as it is, a check that answers false is never followed by one that
\* answers true; and a call_tool() issues a Stop only in the step of a
\* check that answered true, and does issue one when the check answers
\* true for a task that is running with its queue.  So the first check
\* after a change of the marker away from what is remembered answers true,
\* and between two Stops issued by call_tool() the marker has changed.
C34_OneReloadPerChange ==
    [][/\ \A o \in Ops : Began(o) => marker' = marker /\ ~CheckReload(marker', last')
       /\ (\A o \in Ops : ~Began(o)) => last' = last
       /\ (marker' = marker /\ ~CheckReload(marker, last)) => ~CheckReload(marker', last')
       /\ \A o \in Ops :
            (sfut[o] = "none" /\ sfut'[o] # "none" /\ okind'[o] = "invoke")
            => Began(o) /\ CheckReload(marker, last)
       /\ \A o \in Ops :
            (Began(o) /\ CheckReload(marker, last) /\ StopCond)
            => sfut'[o] = "pending"]_vars

\* A call_tool() found the marker changed and is inside its stop(); a
\* call_tool() that began after it, with the marker as it was, issued no
\* Stop and triggered nothing.
C34_Witness ==
    \E c \in Callers : \E o2 \in Ops :
        /\ pc[c] \in StopPcs
        /\ trig[cop[c]] # 0
        /\ o2 > cop[c]
        /\ okind[o2] = "invoke"
        /\ sfut[o2] = "none"
        /\ trig[o2] = 0
        /\ marker = last
        /\ marker = MaxMtime

\* C35: a stop() works on the task that was current when it began and on
\* no other.  The task it waits for and cancels is fixed when it clears
\* the queue reference (the current task, whose queue the reference
\* named) and stays the same until it returns; cancellation of a task is
\* requested only by a stop() that began with that task; the queue
\* reference is cleared only in the step in which a stop() begins; and a
\* step of a stop() between its waits leaves the current task and queue
\* references and every other task (state, queue, session, cancellation)
\* as they were.
C35_StopOnlyItsOwnTask ==
    [][/\ \A t \in Tasks :
            (wcancel'[t] /\ ~wcancel[t])
            => \E c \in Callers : pc[c] \in StopPcs /\ ltask[c] = t
       /\ \A c \in Callers :
            /\ (pc[c] \notin StopPcs /\ pc'[c] \in StopPcs)
               => ltask'[c] = task /\ task # 0 /\ rq = task /\ rq' = 0
            /\ (pc[c] \in StopPcs /\ pc'[c] \in StopPcs)
               => ltask'[c] = ltask[c] /\ cop'[c] = cop[c]
            /\ (pc[c] \in StopPcs /\ pc'[c] \in StopPcs /\ pc'[c] # pc[c])
               => /\ task' = task /\ rq' = rq
                  /\ \A t \in Tasks \ {ltask[c]} :
                        /\ wstate'[t] = wstate[t]
                        /\ wq'[t] = wq[t]
                        /\ open'[t] = open[t]
                        /\ wcancel'[t] = wcancel[t]
       /\ (rq # 0 /\ rq' = 0)
            => \E c \in Callers : pc[c] \notin StopPcs /\ pc'[c] \in StopPcs]_vars

\* A stop() was suspended on its Stop's future when its task ended by
\* itself (the connection failed); another caller's call_tool() started the
\* second worker; the wait of the stop() then expired and the stop()
\* returned, and the second worker is current, in its loop, not cancelled,
\* with its queue reference in place.
C35_Witness ==
    \E o \in Ops :
        /\ okind[o] = "stop"
        /\ sfut[o] = "cancelled"
        /\ res[o] = Out("returned", 0)
        /\ wstate[1] = "done" /\ ~wcancel[1]
        /\ task = 2 /\ rq = 2
        /\ wstate[2] = "loop" /\ ~wcancel[2] /\ open[2]
        /\ Len(wq[2]) > 0

\* C36: a stop() that begins while the queue reference is cleared and the
\* task has not finished returns in that very step and changes nothing: it
\* waits for nothing, puts no command, cancels no task.  A queue holds one
\* Stop at most; a Stop is put only on the queue the reference names, in
\* the step that clears the reference; and a queue that the reference has
\* left never becomes the current queue again (a reference is set only to
\* the queue of a task created in that step).  So no queue is ever given a
\* second Stop.
C36_SecondStopIsNoop ==
    /\ [](\A t \in Tasks :
            Cardinality({i \in 1..Len(wq[t]) : wq[t][i].cmd = "stop"}) <= 1)
    /\ [][\A o \in Ops :
            (StopBegan(o) /\ rq = 0 /\ TaskAlive)
            => /\ res'[o] = Out("returned", 0)
               /\ pc' = pc /\ ltask' = ltask
               /\ wq' = wq /\ sfut' = sfut /\ wcancel' = wcancel
               /\ wstate' = wstate /\ open' = open
               /\ task' = task /\ rq' = rq]_vars
    /\ [][\A t \in Tasks :
            (Len(wq'[t]) > Len(wq[t]) /\ wq'[t][Len(wq'[t])].cmd = "stop")
            => rq = t /\ rq' = 0]_vars
    /\ [][(rq' # rq /\ rq' # 0)
            => wstate[rq'] = "none" /\ wstate'[rq'] = "connect"]_vars

\* A stop() is waiting for the worker, which has not taken its Stop, and a
\* second stop() called meanwhile has returned; the queue holds the one
\* Stop of the first.
C36_Witness ==
    \E c \in Callers : \E o2 \in Ops :
        /\ pc[c] = "s_fut"
        /\ okind[cop[c]] = "stop"
        /\ o2 > cop[c]
        /\ okind[o2] = "stop"
        /\ res[o2] = Out("returned", 0)
        /\ sfut[o2] = "none"
        /\ rq = 0
        /\ wstate[ltask[c]] = "call"
        /\ wq[ltask[c]] = <<StopCmd(cop[c])>>

\* C37: a stop() whose Stop waits behind a running child invocation gives
\* up the wait for its Stop's future when that wait has lasted the whole
\* soft-stop timeout, and then requests cancellation of the worker,
\* touching no future; the cancellation ends the worker in the middle of
\* the invocation: the worker leaves its loop and the step sets no future
\* and gives no caller an outcome; and the future of the Call that was in
\* flight is never set by the worker afterwards, so that its caller is
\* given nothing but the timeout error of call_tool().
C37_StopDuringLongCall ==
    /\ [][\A c \in Callers :
            (pc[c] = "s_fut" /\ pc'[c] = "s_join2" /\ wstate[ltask[c]] = "call")
            => /\ age.c[c] >= StopTimeout
               /\ wcancel'[ltask[c]]
               /\ wstate'[ltask[c]] = "call"
               /\ fut' = fut]_vars
    /\ [][\A t \in Tasks :
            (wstate[t] = "call" /\ wcancel[t] /\ wstate'[t] # "call")
            => /\ wstate'[t] = "closing"
               /\ fut' = fut
               /\ res' = res
               /\ wcur[t].args \in fin']_vars
    /\ [](\A t \in Tasks : \A o \in Ops :
            (/\ wcancel[t]
             /\ wstate[t] \in {"closing", "done"}
             /\ Len(ChildCalls(t)) > 0
             /\ ChildCalls(t)[Len(ChildCalls(t))].args = ArgsOf(o)
             /\ fut[o].k \notin FromChild)
            => /\ fut[o].k \in {"pending", "cancelled"}
               /\ res[o].k \in {"none", "TimeoutOuter"})

\* The second call_tool() found the marker changed while the child was
\* busy with the Call of the first; its stop() gave up after the soft-stop
\* timeout and the worker was cancelled with the Stop still in its queue;
\* the first caller got the timeout error of call_tool(), and the second
\* worker is the current one.
C37_Witness ==
    /\ trig[2] = 1
    /\ sfut[2] = "cancelled"
    /\ wcancel[1] /\ TaskDone(1)
    /\ wq[1] = <<StopCmd(2)>>
    /\ disp[1] = [t |-> 1, args |-> ArgsOf(1)]
    /\ ArgsOf(1) \in fin
    /\ res[1] = Out("TimeoutOuter", 0)
    /\ task = 2

\* C38: a call_tool() that begins when the current worker has ended by
\* itself (no stop was issued to it and it was not cancelled: its
\* connection or handshake failed) creates the next worker with a new
\* queue that holds its Call and nothing else, and leaves the queue of the
\* ended worker as it was; the queue of a worker that has ended is never
\* changed; and a worker that is leaving or has left its contexts makes
\* no child invocation, so the Calls in its queue are never dispatched.
C38_FreshAfterConnectFailure ==
    [][/\ \A o \in Ops :
            (Began(o) /\ task # 0 /\ rq = task /\ TaskDone(task) /\ ~wcancel[task])
            => /\ Len(ChildCalls(task)) = 0
               /\ task' = NextTask /\ task' # task
               /\ rq' = task'
               /\ wstate[task'] = "none" /\ wstate'[task'] = "connect"
               /\ wq'[task'] = <<CallCmd(ArgsOf(o), o)>>
               /\ wq'[task] = wq[task]
               /\ enq' = Append(enq, [q |-> task', args |-> ArgsOf(o)])
               /\ fut'[o] = Pending
       /\ \A t \in Tasks :
            /\ wstate[t] = "done" => wq'[t] = wq[t]
            /\ wstate[t] \in {"closing", "done"}
               => /\ wstate'[t] \in {"closing", "done"}
                  /\ Len(SelectSeq(disp', LAMBDA e : e.t = t)) = Len(ChildCalls(t))]_vars

\* The first worker failed to connect and ended with the first Call in
\* its queue; the second call_tool() started the second worker, which has
\* answered the second Call and no other.
C38_Witness ==
    /\ TaskDone(1) /\ ~wcancel[1]
    /\ wq[1] = <<CallCmd(ArgsOf(1), 1)>>
    /\ enq = <<[q |-> 1, args |-> ArgsOf(1)], [q |-> 2, args |-> ArgsOf(2)]>>
    /\ disp = <<[t |-> 2, args |-> ArgsOf(2)]>>
    /\ res[2] = Out("ok", Payload(ArgsOf(2)))
    /\ \A o \in Ops : sfut[o] = "none"

\* C39: after construction the remembered mtime is that of the marker if
\* the marker exists (and nothing if it does not).  As long as a marker
\* that existed at construction has not been touched or removed, the
\* remembered mtime is the marker's, no reload check has answered true
\* (with or without a task alive) and no call_tool() has issued a Stop;
\* and a call_tool() that begins then leaves the remembered mtime as it is:
\* its check is neither a first sighting nor a change.
C39_StartupMarkerRecorded ==
    /\ (IF marker # 0 THEN last = marker ELSE last = 0)
    /\ [](( ~age.touched /\ marker # 0)
            => /\ last = marker
               /\ age.cold = 0
               /\ \A o \in Ops :
                     /\ trig[o] = 0
                     /\ okind[o] = "invoke" => sfut[o] = "none")
    /\ [][\A o \in Ops :
            (Began(o) /\ ~age.touched /\ marker # 0)
            => /\ last # 0
               /\ ~CheckReload(marker, last)
               /\ last' = last
               /\ sfut' = sfut]_vars

\* The marker existed at construction and has not changed; two
\* call_tool() calls have been answered by the same worker, which is in
\* its loop, and no Stop was issued.
C39_Witness ==
    /\ ~age.touched
    /\ marker # 0
    /\ enq = <<[q |-> 1, args |-> ArgsOf(1)], [q |-> 1, args |-> ArgsOf(2)]>>
    /\ res[1] = Out("ok", Payload(ArgsOf(1)))
    /\ res[2] = Out("ok", Payload(ArgsOf(2)))
    /\ wstate[1] = "loop"
    /\ \A o \in Ops : sfut[o] = "none"

\* C40: the remembered mtime never decreases from one mtime to another; it
\* is cleared only by the check of a call_tool() that finds the marker
\* absent; a check that finds the marker present with an mtime equal to or
\* older than the remembered one answers false (no Stop, no trigger) and
\* leaves the remembered mtime as it is; and a check that answers true for
\* a marker that is present found an mtime strictly above the remembered
\* one, which it then remembers.
C40_MemoryNeverDecreases ==
    [][/\ (last # 0 /\ last' # 0) => last' >= last
       /\ (last # 0 /\ last' = 0) => marker = 0 /\ \E o \in Ops : Began(o)
       /\ \A o \in Ops :
            /\ (Began(o) /\ marker # 0 /\ last # 0 /\ marker <= last)
               => /\ last' = last
                  /\ trig'[o] = 0
                  /\ sfut' = sfut
            /\ (Began(o) /\ marker # 0 /\ (trig'[o] # 0 \/ sfut' # sfut))
               => /\ last # 0
                  /\ marker > last
                  /\ last' = marker]_vars

\* The second call_tool() reloaded on a newer mtime; the marker was then
\* set back to an older mtime, which the third call_tool() did not take
\* for a change: the newer mtime is still the remembered one.
C40_Witness ==
    /\ marker # 0
    /\ marker < last
    /\ trig[2] = 1
    /\ okind[3] = "invoke"
    /\ trig[3] = 0
    /\ sfut[3] = "none"
    /\ enq[Len(enq)] = [q |-> 2, args |-> ArgsOf(3)]

====
